---- MODULE Spec2Model ----
(***************************************************************************)
(* Model of scripts/gen_input_table.py (ProBin input table generator).     *)
(*                                                                         *)
(* A Python str is a sequence of tokens; a token is a TLA+ string standing *)
(* for a run of characters with no separator in it ("c1", "cov_mean_"),    *)
(* or for one separator character ("\t", "\n", ",", ".").  A Python dict   *)
(* is a function whose DOMAIN is the set of its keys.  A float is an       *)
(* integer number of 1/Scale units.                                        *)
(***************************************************************************)
EXTENDS Integers, Sequences, FiniteSets, TLC

(* ---------------------------- bounds ----------------------------------- *)
MaxBam == 2        \* at most this many BAM files on the command line
MaxLines == 2      \* at most this many lines in a histogram given to get_bedcov_dict
MaxDepth == 2      \* largest depth bucket in a histogram

Scale == 10        \* a float frequency is read with one decimal digit: units of 1/10

Contigs == {<<"c1">>, <<"c2">>}

(* ------------------------- str operations ------------------------------ *)
RECURSIVE SplitRec(_, _, _, _, _)
\* the pieces of s from position start on, position i being the next to look at
SplitRec(s, seps, start, i, acc) ==
    IF i > Len(s) THEN Append(acc, SubSeq(s, start, Len(s)))
    ELSE IF s[i] \in seps
         THEN SplitRec(s, seps, i + 1, i + 1, Append(acc, SubSeq(s, start, i - 1)))
         ELSE SplitRec(s, seps, start, i + 1, acc)

\* s.split(sep): the pieces between the separators, empty pieces kept
Split(s, sep) == SplitRec(s, {sep}, 1, 1, <<>>)

Whitespace == {"\t", "\n", " "}

\* s.split(): the pieces between runs of whitespace, no empty piece
WsSplit(s) == SelectSeq(SplitRec(s, Whitespace, 1, 1, <<>>), LAMBDA piece : piece # <<>>)

RECURSIVE FileLinesRec(_, _, _, _)
FileLinesRec(s, start, i, acc) ==
    IF i > Len(s) THEN (IF start > Len(s) THEN acc ELSE Append(acc, SubSeq(s, start, Len(s))))
    ELSE IF s[i] = "\n"
         THEN FileLinesRec(s, i + 1, i + 1, Append(acc, SubSeq(s, start, i)))
         ELSE FileLinesRec(s, start, i + 1, acc)

\* iteration over open(path) / readlines(): each line keeps its newline, an
\* unterminated last line is yielded as it is
FileLines(content) == FileLinesRec(content, 1, 1, <<>>)

\* seq[:-1]
AllButLast(seq) == IF seq = <<>> THEN <<>> ELSE SubSeq(seq, 1, Len(seq) - 1)

RECURSIVE Concat(_)
Concat(seqs) == IF seqs = <<>> THEN <<>> ELSE Head(seqs) \o Concat(Tail(seqs))

MaxInt == 9        \* the model parses the decimal text of one-digit integers

\* int(s)
ParseInt(s) == CHOOSE n \in 0..MaxInt : s = <<ToString(n)>>

\* float(s) of a text "w" or "w.d" with one decimal digit, in 1/Scale units
ParseFloat(s) ==
    IF Len(s) = 1 THEN ParseInt(s) * Scale
    ELSE ParseInt(<<s[1]>>) * Scale + ParseInt(<<s[3]>>)

\* the decimal text of the frequency f/Scale as genomeCoverageBed prints it
FracText(f) ==
    IF f % Scale = 0 THEN <<ToString(f \div Scale)>>
    ELSE <<ToString(f \div Scale), ".", ToString(f % Scale)>>

(* ------------------------ get_bedcov_dict ------------------------------ *)
DictSet(d, k, v) == [x \in DOMAIN d \cup {k} |-> IF x = k THEN v ELSE d[x]]
DictGet(d, k, default) == IF k \in DOMAIN d THEN d[k] ELSE default

\* the body of the loop over the lines, for one line
BedLineStep(out_dict, line) ==
    LET cols == WsSplit(line)
        d == DictGet(out_dict, cols[1], <<>>)
    IN  IF ParseInt(cols[2]) = 0
        THEN DictSet(out_dict, cols[1],
                     DictSet(d, "percentage_covered", 100 * Scale - ParseFloat(cols[5]) * 100))
        ELSE DictSet(out_dict, cols[1],
                     DictSet(d, "cov_mean",
                             DictGet(d, "cov_mean", 0) + ParseInt(cols[2]) * ParseFloat(cols[5])))

RECURSIVE BedFold(_, _)
BedFold(out_dict, lines) ==
    IF lines = <<>> THEN out_dict
    ELSE BedFold(BedLineStep(out_dict, Head(lines)), Tail(lines))

\* the lines the loop iterates over: the file's lines, or the pieces of the text
BedLines(content, isfile) ==
    IF isfile THEN FileLines(content) ELSE AllButLast(Split(content, "\n"))

get_bedcov_dict(content, isfile) == BedFold(<<>>, BedLines(content, isfile))

(* ---------------------- histogram inputs ------------------------------- *)
\* a histogram line: contig, depth, count at depth, contig length, fraction
HistLine(c, depth, f) ==
    c \o <<"\t", ToString(depth), "\t", "5", "\t", "10", "\t">> \o FracText(f)

Fractions == {Scale \div 2, Scale}

Buckets == Contigs \X (0..MaxDepth) \X Fractions

\* histograms: sequences of buckets, at most one line per contig and depth
RECURSIVE SeqsUpTo(_, _)
SeqsUpTo(S, n) ==
    IF n = 0 THEN {<<>>}
    ELSE LET shorter == SeqsUpTo(S, n - 1)
         IN  shorter \cup {Append(q, x) : q \in shorter, x \in S}

Histograms ==
    {h \in SeqsUpTo(Buckets, MaxLines) :
        \A i, j \in 1..Len(h) : (h[i][1] = h[j][1] /\ h[i][2] = h[j][2]) => i = j}

RECURSIVE HistText(_, _)
HistText(h, terminated) ==
    IF h = <<>> THEN <<>>
    ELSE HistLine(h[1][1], h[1][2], h[1][3])
         \o (IF Len(h) > 1 \/ terminated THEN <<"\n">> ELSE <<>>)
         \o HistText(Tail(h), terminated)

(* --------------------------- formatting -------------------------------- *)
\* "%f" % v: the integer part, a point and six decimal digits (v in 1/Scale
\* units; Scale divides 1000000, so no digit is rounded)
FormatF(v) ==
    LET micro == ((v % Scale) * 1000000) \div Scale
    IN  <<ToString(v \div Scale), ".",
          ToString((micro \div 100000) % 10), ToString((micro \div 10000) % 10),
          ToString((micro \div 1000) % 10), ToString((micro \div 100) % 10),
          ToString((micro \div 10) % 10), ToString(micro % 10)>>

\* str(v) of a float with at most one decimal digit: "50.0", "12.5"
FloatStr(v) == <<ToString(v \div Scale), ".", ToString(v % Scale)>>

\* "%s" % n of an int
IntStr(n) == <<ToString(n)>>

(* ------------------------ get_gc_and_len_dict -------------------------- *)
\* Bio.SeqUtils.GC: the percentage of G, C and S bases, 0 for an empty sequence
GC(seq) ==
    LET gc == Cardinality({i \in 1..Len(seq) : seq[i] \in {"G", "C", "g", "c", "S", "s"}})
    IN  IF Len(seq) = 0 THEN 0 ELSE (gc * 100 * Scale) \div Len(seq)

RECURSIVE FastaFold(_, _)
FastaFold(out_dict, recs) ==
    IF recs = <<>> THEN out_dict
    ELSE FastaFold(DictSet(out_dict, Head(recs).id,
                           [GC |-> GC(Head(recs).seq), length |-> Len(Head(recs).seq)]),
                   Tail(recs))

RECURSIVE FastaFoldKeepFirst(_, _)
FastaFoldKeepFirst(out_dict, recs) ==
    IF recs = <<>> THEN out_dict
    ELSE FastaFoldKeepFirst(
             IF Head(recs).id \in DOMAIN out_dict THEN out_dict
             ELSE DictSet(out_dict, Head(recs).id,
                          [GC |-> GC(Head(recs).seq), length |-> Len(Head(recs).seq)]),
             Tail(recs))

\* mutant: a repeated id keeps its first record instead of its last
get_gc_and_len_dict_KeepFirst(recs) == FastaFoldKeepFirst(<<>>, recs)

\* recs: the records SeqIO.parse yields, in file order
get_gc_and_len_dict(recs) == FastaFold(<<>>, recs)

\* the orders in which "for acc in fastadict" may visit the keys of a dict
IterationOrders(d) ==
    {o \in [1..Cardinality(DOMAIN d) -> DOMAIN d] :
        \A i, j \in DOMAIN o : o[i] = o[j] => i = j}

(* ------------------------- get_taxonomy_dict --------------------------- *)
TAXONOMY == <<"phylum", "class", "order", "family", "genus", "species">>

\* s.rstrip('\n')
RECURSIVE RStripNewline(_)
RStripNewline(s) ==
    IF s # <<>> /\ s[Len(s)] = "\n" THEN RStripNewline(SubSeq(s, 1, Len(s) - 1)) ELSE s

\* mutant: the assertion lets lines with more than 7 fields through
TaxonomyLineOk_AtLeast(cols) == Len(cols) >= Len(TAXONOMY) + 1

\* the assertion of line 122
TaxonomyLineOk(cols) == Len(cols) = Len(TAXONOMY) + 1

\* dict(zip(TAXONOMY, cols[1:-1] + [cols[-1].rstrip('\n')]))
TaxonomyRecord(cols) ==
    LET values == SubSeq(cols, 2, Len(cols) - 1) \o <<RStripNewline(cols[Len(cols)])>>
    IN  [t \in {TAXONOMY[i] : i \in 1..Len(TAXONOMY)} |->
            values[CHOOSE i \in 1..Len(TAXONOMY) : TAXONOMY[i] = t]]

RECURSIVE TaxonomyFold(_, _)
\* raised: a line failed the assertion (the lines after it are not read)
TaxonomyFold(outdict, lines) ==
    IF lines = <<>> THEN [raised |-> FALSE, outdict |-> outdict]
    ELSE LET cols == Split(Head(lines), ",")
         IN  IF ~TaxonomyLineOk(cols) THEN [raised |-> TRUE, outdict |-> <<>>]
             ELSE TaxonomyFold(DictSet(outdict, cols[1], TaxonomyRecord(cols)), Tail(lines))

get_taxonomy_dict(content) == TaxonomyFold(<<>>, FileLines(content))

(* ------------------------- print_input_table --------------------------- *)
\* line 67: the nine fixed columns
HeaderStart ==
    <<"contig", "\t", "length", "\t", "GC">>
    \o Concat([i \in 1..Len(TAXONOMY) |-> <<"\t", TAXONOMY[i]>>])

\* line 71, for sample index i (from 0)
HeaderIndexColumns(i) ==
    <<"\t", "cov_mean_", "sample_", ToString(i), "\t",
      "percentage_covered_", "sample_", ToString(i), "\n">>

\* line 76, for sample name sn
HeaderNameColumns(sn) ==
    <<"\t", "cov_mean_">> \o sn \o <<"\t", "percentage_covered_">> \o sn \o <<"\n">>

\* lines 67-76: everything the header part writes
HeaderText(nsamples, named, names) ==
    HeaderStart
    \o (IF named
        THEN Concat([i \in 1..Len(names) |-> HeaderNameColumns(names[i])])
        ELSE Concat([i \in 1..nsamples |-> HeaderIndexColumns(i - 1)]))

\* mutant: a contig without taxonomy record gets no cell at all
TaxonomyCell_SkipMissing(taxdict, acc, t) ==
    IF acc \in DOMAIN taxdict /\ t \in DOMAIN taxdict[acc]
    THEN <<"\t">> \o taxdict[acc][t]
    ELSE <<>>

\* lines 91-95: the cell of rank t for contig acc
TaxonomyCell(taxdict, acc, t) ==
    IF acc \in DOMAIN taxdict /\ t \in DOMAIN taxdict[acc]
    THEN <<"\t">> \o taxdict[acc][t]
    ELSE <<"\t", "N/A">>

\* line 104: bcd[acc]["cov_mean"] raises KeyError without the key or the entry
CoverageKeyError(bcd, acc) == acc \notin DOMAIN bcd \/ "cov_mean" \notin DOMAIN bcd[acc]

\* mutant: percentage_covered defaults to 0 instead of 100
CoverageCells_DefaultZero(bcd, acc) ==
    IF CoverageKeyError(bcd, acc)
    THEN <<"\t", "0", "\t", "0">>
    ELSE <<"\t">> \o FormatF(bcd[acc]["cov_mean"])
         \o <<"\t">> \o FormatF(DictGet(bcd[acc], "percentage_covered", 0))

\* lines 100-107: the two cells of one sample for contig acc
CoverageCells(bcd, acc) ==
    IF CoverageKeyError(bcd, acc)
    THEN <<"\t", "0", "\t", "0">>
    ELSE <<"\t">> \o FormatF(bcd[acc]["cov_mean"])
         \o <<"\t">> \o FormatF(DictGet(bcd[acc], "percentage_covered", 100 * Scale))

\* lines 82-108: the row of contig acc
RowText(fdict, taxdict, bcds, acc) ==
    acc \o <<"\t">> \o IntStr(fdict[acc]["length"]) \o <<"\t">> \o FloatStr(fdict[acc]["GC"])
    \o Concat([i \in 1..Len(TAXONOMY) |-> TaxonomyCell(taxdict, acc, TAXONOMY[i])])
    \o Concat([i \in 1..Len(bcds) |-> CoverageCells(bcds[i], acc)])
    \o <<"\n">>

(* ------------------------------ inputs --------------------------------- *)
MaxRecs == 2       \* at most this many records in the FASTA file
MaxTaxLines == 2   \* at most this many lines in the taxonomy file

\* the records of the FASTA file: c1 occurs with two sequences
FastaRecords ==
    {[id |-> <<"c1">>, seq |-> <<"G">>],
     [id |-> <<"c1">>, seq |-> <<"A", "C">>],
     [id |-> <<"c2">>, seq |-> <<"A", "T", "G", "C">>]}

FastaFiles == SeqsUpTo(FastaRecords, MaxRecs)

\* taxonomy lines: a well-formed one, one with 6 fields, one with 8
TaxonomyLines ==
    {<<"c2", ",", "P", ",", "C", ",", "O", ",", "F", ",", "G", ",", "S", "\n">>,
     <<"c1", ",", "P", ",", "C", ",", "O", ",", "F", ",", "G", "\n">>,
     <<"c1", ",", "P", ",", "C", ",", "O", ",", "F", ",", "G", ",", "S", ",", "X", "\n">>}

TaxonomyFiles == {Concat(ls) : ls \in SeqsUpTo(TaxonomyLines, MaxTaxLines)}

SampleNameChars == <<"a", "b", "c", "d", "e">>

\* a sample-names file of k one-letter names, one per line
SampleNamesFile(k) == Concat([i \in 1..k |-> <<SampleNameChars[i], "\n">>])

\* what genomeCoverageBed prints for a BAM file whose only reference is c1:
\* c1 without reads, covered in full, or covered in part
ToolHistograms ==
    {<<<<<<"c1">>, 0, Scale>>>>,
     <<<<<<"c1">>, MaxDepth, Scale>>>>,
     <<<<<<"c1">>, 0, Scale \div 2>>, <<<<"c1">>, MaxDepth, Scale \div 2>>>>}

(* ------------------------------- state --------------------------------- *)
VARIABLES
    pc,            \* where the run is
    error,         \* the exception that ended the run, "" if none
    bamfiles,      \* args.bamfiles
    namesgiven,    \* args.samplenames != None
    namesfile,     \* the content of the sample-names file
    fastafile,     \* the records of the FASTA file, once it is parsed
    taxonomyfile,  \* the content of the taxonomy file
    samplenames,   \* the list read from the sample-names file
    launched,      \* the number of genomeCoverageBed processes started
    running,       \* a genomeCoverageBed process is running
    returncodes,   \* the exit statuses seen so far
    bedcovdicts,   \* one mapping per BAM file done
    filesread,     \* the input files opened so far
    fastadict, fastaorder, taxonomydict,
    rowsdone,      \* the number of contigs whose row is written
    stdout         \* the writes to standard output: [by, text]

VARIABLES hist, terminated, isfile, bedpc, bedresult

mainvars == <<pc, error, bamfiles, namesgiven, namesfile, fastafile, taxonomyfile,
              samplenames, launched, running, returncodes, bedcovdicts, filesread,
              fastadict, fastaorder, taxonomydict, rowsdone, stdout>>

bedvars == <<hist, terminated, isfile, bedpc, bedresult>>

vars == <<mainvars, bedvars>>

\* the text on standard output written by the code places named in bys
WrittenBy(bys) ==
    Concat([i \in 1..Len(stdout) |-> IF stdout[i].by \in bys THEN stdout[i].text ELSE <<>>])

StdoutText == WrittenBy({"header", "row", "print"})

MainStart ==
    /\ pc = "main"
    /\ error = ""
    /\ samplenames = <<>>
    /\ launched = 0
    /\ running = FALSE
    /\ returncodes = <<>>
    /\ bedcovdicts = <<>>
    /\ filesread = {}
    /\ fastadict = <<>>
    /\ fastaorder = <<>>
    /\ taxonomydict = <<>>
    /\ rowsdone = 0
    /\ stdout = <<>>

BedIdle ==
    /\ hist = <<>>
    /\ terminated = TRUE
    /\ isfile = FALSE
    /\ bedpc = "idle"
    /\ bedresult = <<>>

Init ==
    /\ bamfiles \in {[i \in 1..n |-> <<"bam", ToString(i)>>] : n \in 1..MaxBam}
    /\ namesgiven \in BOOLEAN
    /\ namesfile \in {SampleNamesFile(k) : k \in 0..MaxBam}
    /\ namesgiven = FALSE => namesfile = <<>>
    /\ fastafile = <<>>
    /\ taxonomyfile \in TaxonomyFiles
    /\ MainStart
    /\ BedIdle

(* ------------------------------ __main__ ------------------------------- *)
\* mutant: fewer names than BAM files are let through
NamesCountOk_AtMost(names, bams) == Len(names) <= Len(bams)

\* line 158
NamesCountOk(names, bams) == Len(names) = Len(bams)

\* lines 155-161: read the sample names and check their number
Main ==
    /\ pc = "main"
    /\ IF namesgiven
       THEN LET names == [i \in 1..Len(FileLines(namesfile)) |->
                             AllButLast(FileLines(namesfile)[i])]
            IN  /\ samplenames' = names
                /\ filesread' = filesread \cup {"samplenames"}
                /\ IF NamesCountOk(names, bamfiles)
                   THEN pc' = "loop" /\ error' = error
                   ELSE pc' = "failed" /\ error' = "samplenames"
       ELSE /\ pc' = "loop"
            /\ UNCHANGED <<samplenames, filesread, error>>
    /\ UNCHANGED <<bamfiles, namesgiven, namesfile, fastafile, taxonomyfile, launched,
                   running, returncodes, bedcovdicts, fastadict, fastaorder, taxonomydict,
                   rowsdone, stdout, bedvars>>

(* ------------------------ generate_input_table ------------------------- *)
\* mutant: the readers run without the loop over bamfiles before them
LoopHasNext_Never(dicts, bams) == FALSE

\* line 134: the loop over bamfiles has a next element
LoopHasNext(dicts, bams) == Len(dicts) < Len(bams)

\* line 135: start genomeCoverageBed for the next BAM file
Popen ==
    /\ pc = "loop"
    /\ LoopHasNext(bedcovdicts, bamfiles)
    /\ launched' = launched + 1
    /\ running' = TRUE
    /\ pc' = "communicate"
    /\ UNCHANGED <<error, bamfiles, namesgiven, namesfile, fastafile, taxonomyfile,
                   samplenames, returncodes, bedcovdicts, filesread, fastadict, fastaorder,
                   taxonomydict, rowsdone, stdout, bedvars>>

\* mutant: the exit status is not looked at
ReturnCodeFails_Never(rc) == FALSE

\* line 137
ReturnCodeFails(rc) == rc # 0

\* lines 136-141: the process exits with status rc having printed out
Communicate(rc, out) ==
    /\ pc = "communicate"
    /\ running' = FALSE
    /\ returncodes' = Append(returncodes, rc)
    /\ IF ReturnCodeFails(rc)
       THEN /\ stdout' = Append(stdout, [by |-> "print", text |-> out \o <<"\n">>])
            /\ pc' = "failed"
            /\ error' = "genomeCoverageBed"
            /\ UNCHANGED bedcovdicts
       ELSE /\ bedcovdicts' = Append(bedcovdicts, get_bedcov_dict(out, FALSE))
            /\ pc' = "loop"
            /\ UNCHANGED <<stdout, error>>
    /\ UNCHANGED <<bamfiles, namesgiven, namesfile, fastafile, taxonomyfile, samplenames,
                   launched, filesread, fastadict, fastaorder, taxonomydict, rowsdone,
                   bedvars>>

ProcessExits ==
    \E rc \in {0, 1}, h \in ToolHistograms : Communicate(rc, HistText(h, TRUE))

\* line 143, first argument: the FASTA file is parsed once the loop is over
GetGcAndLenDict ==
    /\ pc = "loop"
    /\ ~LoopHasNext(bedcovdicts, bamfiles)
    /\ \E recs \in FastaFiles :
          /\ fastafile' = recs
          /\ fastadict' = get_gc_and_len_dict(recs)
          /\ fastaorder' \in IterationOrders(get_gc_and_len_dict(recs))
    /\ filesread' = filesread \cup {"fasta"}
    /\ pc' = "taxonomy"
    /\ UNCHANGED <<error, bamfiles, namesgiven, namesfile, taxonomyfile,
                   samplenames, launched, running, returncodes, bedcovdicts, taxonomydict,
                   rowsdone, stdout, bedvars>>

\* line 143, second argument: the taxonomy file is read
GetTaxonomyDict ==
    /\ pc = "taxonomy"
    /\ filesread' = filesread \cup {"taxonomy"}
    /\ LET r == get_taxonomy_dict(taxonomyfile)
       IN  IF r.raised
           THEN pc' = "failed" /\ error' = "taxonomy" /\ UNCHANGED taxonomydict
           ELSE pc' = "header" /\ taxonomydict' = r.outdict /\ UNCHANGED error
    /\ UNCHANGED <<bamfiles, namesgiven, namesfile, fastafile, taxonomyfile, samplenames,
                   launched, running, returncodes, bedcovdicts, fastadict, fastaorder,
                   rowsdone, stdout, bedvars>>

\* lines 66-79: the header, then the assertion that there is a contig
PrintHeader ==
    /\ pc = "header"
    /\ IF namesgiven /\ Len(samplenames) # Len(bedcovdicts)
       THEN \* line 74 fails after line 67 has written
            /\ stdout' = Append(stdout, [by |-> "header", text |-> HeaderStart])
            /\ pc' = "failed"
            /\ error' = "samplenames assertion"
       ELSE /\ stdout' = Append(stdout,
                  [by |-> "header",
                   text |-> HeaderText(Len(bedcovdicts), namesgiven, samplenames)])
            /\ IF Len(fastaorder) > 0
               THEN pc' = "content" /\ UNCHANGED error
               ELSE pc' = "failed" /\ error' = "no contig"
    /\ UNCHANGED <<bamfiles, namesgiven, namesfile, fastafile, taxonomyfile, samplenames,
                   launched, running, returncodes, bedcovdicts, filesread, fastadict,
                   fastaorder, taxonomydict, rowsdone, bedvars>>

\* lines 80-108: one turn of the loop over the contigs
PrintRow ==
    /\ pc = "content"
    /\ rowsdone < Len(fastaorder)
    /\ stdout' = Append(stdout,
          [by |-> "row",
           text |-> RowText(fastadict, taxonomydict, bedcovdicts, fastaorder[rowsdone + 1])])
    /\ rowsdone' = rowsdone + 1
    /\ pc' = IF rowsdone + 1 = Len(fastaorder) THEN "done" ELSE "content"
    /\ UNCHANGED <<error, bamfiles, namesgiven, namesfile, fastafile, taxonomyfile,
                   samplenames, launched, running, returncodes, bedcovdicts, filesread,
                   fastadict, fastaorder, taxonomydict, bedvars>>

Next ==
    \/ Main
    \/ Popen
    \/ ProcessExits
    \/ GetGcAndLenDict
    \/ GetTaxonomyDict
    \/ PrintHeader
    \/ PrintRow

Spec == Init /\ [][Next]_vars

(* ------------------- get_bedcov_dict called alone ---------------------- *)
\* a histogram, given as the content of a file or as a string, ending with a
\* newline or not
BedInit ==
    /\ hist \in Histograms
    /\ terminated \in BOOLEAN
    /\ isfile \in BOOLEAN
    /\ bedpc = "call"
    /\ bedresult = <<>>
    /\ bamfiles = <<>>
    /\ namesgiven = FALSE
    /\ namesfile = <<>>
    /\ fastafile = <<>>
    /\ taxonomyfile = <<>>
    /\ pc = "main"
    /\ error = ""
    /\ samplenames = <<>>
    /\ launched = 0
    /\ running = FALSE
    /\ returncodes = <<>>
    /\ bedcovdicts = <<>>
    /\ filesread = {}
    /\ fastadict = <<>>
    /\ fastaorder = <<>>
    /\ taxonomydict = <<>>
    /\ rowsdone = 0
    /\ stdout = <<>>

CallGetBedcovDict ==
    /\ bedpc = "call"
    /\ bedresult' = get_bedcov_dict(HistText(hist, terminated), isfile)
    /\ bedpc' = "returned"
    /\ UNCHANGED <<hist, terminated, isfile, mainvars>>

SpecBed == BedInit /\ [][CallGetBedcovDict]_vars

(* ------------------- reading standard output back ---------------------- *)
\* the lines of a text: the pieces between newlines, without the empty piece
\* after a final newline
OutputLines(text) ==
    LET pieces == Split(text, "\n")
    IN  IF pieces[Len(pieces)] = <<>> THEN AllButLast(pieces) ELSE pieces

\* the tab-separated fields of a line
Fields(line) == Split(line, "\t")

\* the data rows written so far, each as its sequence of fields
DataRows ==
    LET lines == OutputLines(WrittenBy({"row"}))
    IN  [i \in 1..Len(lines) |-> Fields(lines[i])]

\* the header or a row of the table has been written
TableText == WrittenBy({"header", "row"})

\* the label of sample i (from 1) in the header
SampleLabel(i) == IF namesgiven THEN samplenames[i] ELSE <<"sample_", ToString(i - 1)>>

\* the header line as the table layout has it: 9 + 2N columns
ExpectedHeader ==
    <<<<"contig">>, <<"length">>, <<"GC">>, <<"phylum">>, <<"class">>, <<"order">>,
      <<"family">>, <<"genus">>, <<"species">>>>
    \o Concat([i \in 1..Len(bamfiles) |->
                  <<<<"cov_mean_">> \o SampleLabel(i), <<"percentage_covered_">> \o SampleLabel(i)>>])

\* C1: with N >= 1 coverage mappings and K >= 1 contigs the output is one
\* header line of 9 + 2N tab-separated columns (no newline inside it)
\* followed by K data lines, K + 1 lines in all.
C1_OneHeaderLine ==
    pc \in {"content", "done"} =>
        LET lines == OutputLines(StdoutText)
        IN  /\ Len(ExpectedHeader) = 9 + 2 * Len(bamfiles)
            /\ Fields(lines[1]) = ExpectedHeader
            /\ pc = "done" => Len(lines) = Cardinality(DOMAIN fastadict) + 1

(* C2 *)
FastaIds == {fastafile[i].id : i \in 1..Len(fastafile)}

\* the length of the record of the FASTA file that the mapping keeps for id
KeptLength(id) ==
    LET last == CHOOSE i \in 1..Len(fastafile) :
                    /\ fastafile[i].id = id
                    /\ \A j \in (i + 1)..Len(fastafile) : fastafile[j].id # id
    IN  Len(fastafile[last].seq)

\* C2: the data rows correspond one to one to the distinct record ids of the
\* FASTA file, also when an id occurs twice: row i starts with the i-th key in
\* the mapping's iteration order and carries that id's length, every id has
\* exactly one row once the table is complete, and no row has another id.
C2_RowsMatchFastaIds ==
    LET rows == DataRows
    IN  /\ Len(rows) = rowsdone
        /\ \A i \in 1..Len(rows) :
              /\ rows[i][1] = fastaorder[i]
              /\ rows[i][1] \in FastaIds
              /\ rows[i][2] = <<ToString(KeptLength(fastaorder[i]))>>
        /\ \A i, j \in 1..Len(rows) : rows[i][1] = rows[j][1] => i = j
        /\ pc = "done" => {rows[i][1] : i \in 1..Len(rows)} = FastaIds

\* a complete table from a FASTA file with a repeated id, with a contig that
\* only the taxonomy knows
C2_Witness ==
    /\ pc = "done"
    /\ Len(fastafile) > Cardinality(FastaIds)
    /\ DOMAIN taxonomydict \ FastaIds # {}

(* C3 *)
\* the two cells of sample j in a row
SampleCells(row, j) == <<row[9 + 2 * j - 1], row[9 + 2 * j]>>


\* C3 as stated: a contig key present in the mapping gives the fixed-point
\* cells of cov_mean and percentage_covered (100 when absent), an absent key
\* gives the plain integers 0 and 0.
C3_PresentKeyGivesFixedPoint ==
    LET rows == DataRows
    IN  \A i \in 1..Len(rows), j \in 1..Len(bedcovdicts) :
            LET acc == fastaorder[i]
                bcd == bedcovdicts[j]
            IN  IF acc \in DOMAIN bcd
                THEN SampleCells(rows[i], j) =
                        <<FormatF(DictGet(bcd[acc], "cov_mean", 0)),
                          FormatF(DictGet(bcd[acc], "percentage_covered", 100 * Scale))>>
                ELSE SampleCells(rows[i], j) = <<<<"0">>, <<"0">>>>

\* C3 amended: a contig key present in the mapping with a cov_mean gives the
\* fixed-point cells of cov_mean and percentage_covered (100 when absent); a
\* key that is absent, or present without cov_mean, gives the plain integers
\* 0 and 0.
C3_CoverageCells ==
    LET rows == DataRows
    IN  \A i \in 1..Len(rows), j \in 1..Len(bedcovdicts) :
            LET acc == fastaorder[i]
                bcd == bedcovdicts[j]
            IN  IF acc \in DOMAIN bcd /\ "cov_mean" \in DOMAIN bcd[acc]
                THEN SampleCells(rows[i], j) =
                        <<FormatF(bcd[acc]["cov_mean"]),
                          FormatF(IF "percentage_covered" \in DOMAIN bcd[acc]
                                  THEN bcd[acc]["percentage_covered"] ELSE 100 * Scale)>>
                ELSE SampleCells(rows[i], j) = <<<<"0">>, <<"0">>>>

\* a row of c1 is written where one sample has c1 without cov_mean and
\* another has it without percentage_covered
C3_Witness ==
    /\ \E i \in 1..rowsdone : fastaorder[i] = <<"c1">>
    /\ \E j \in 1..Len(bedcovdicts) :
          <<"c1">> \in DOMAIN bedcovdicts[j] /\ "cov_mean" \notin DOMAIN bedcovdicts[j][<<"c1">>]
    /\ \E j \in 1..Len(bedcovdicts) :
          /\ <<"c1">> \in DOMAIN bedcovdicts[j]
          /\ "cov_mean" \in DOMAIN bedcovdicts[j][<<"c1">>]
          /\ "percentage_covered" \notin DOMAIN bedcovdicts[j][<<"c1">>]

(* C4 *)
\* the field of rank k (1..6) on the last line of the taxonomy file for acc
TaxonomyFileValue(acc, k) ==
    LET lines == FileLines(taxonomyfile)
        last == CHOOSE i \in 1..Len(lines) :
                    /\ Split(lines[i], ",")[1] = acc
                    /\ \A j \in (i + 1)..Len(lines) : Split(lines[j], ",")[1] # acc
    IN  RStripNewline(Split(lines[last], ",")[k + 1])

TaxonomyFileIds ==
    LET lines == FileLines(taxonomyfile)
    IN  {Split(lines[i], ",")[1] : i \in 1..Len(lines)}

\* C4: in every row the six cells after contig, length and GC are, in the
\* order phylum..species, the contig's values recorded from the taxonomy file,
\* or N/A when the contig has no taxonomy record; such a contig does not make
\* the run fail and the row has exactly six taxonomy cells.
C4_TaxonomyCells ==
    /\ pc \in {"content", "done"} => error = ""
    /\ LET rows == DataRows
           ids == TaxonomyFileIds
       IN  \A i \in 1..Len(rows) :
              LET acc == fastaorder[i]
              IN  /\ Len(rows[i]) = 3 + 6 + 2 * Len(bedcovdicts)
                  /\ \A k \in 1..6 :
                        rows[i][3 + k] =
                            IF acc \in ids THEN taxonomydict[acc][TAXONOMY[k]] ELSE <<"N/A">>
                  /\ acc \in ids =>
                        /\ taxonomydict[acc]["phylum"] = TaxonomyFileValue(acc, 1)
                        /\ taxonomydict[acc]["class"] = TaxonomyFileValue(acc, 2)
                        /\ taxonomydict[acc]["order"] = TaxonomyFileValue(acc, 3)
                        /\ taxonomydict[acc]["family"] = TaxonomyFileValue(acc, 4)
                        /\ taxonomydict[acc]["genus"] = TaxonomyFileValue(acc, 5)
                        /\ taxonomydict[acc]["species"] = TaxonomyFileValue(acc, 6)

\* a complete table with a contig that has a taxonomy record and one that has none
C4_Witness ==
    /\ pc = "done"
    /\ \E i \in 1..rowsdone : fastaorder[i] \in DOMAIN taxonomydict
    /\ \E i \in 1..rowsdone : fastaorder[i] \notin DOMAIN taxonomydict

(* C5 *)
\* a line of the taxonomy file has a number of comma-separated fields other than 7
TaxonomyMalformed ==
    LET lines == FileLines(taxonomyfile)
    IN  \E i \in 1..Len(lines) : Len(Split(lines[i], ",")) # 7

\* C5 as stated: with a malformed taxonomy line anywhere in the file the run
\* ends in a fatal error and nothing has been written to standard output
\* (written as: that holds, or no line is malformed).
C5_NothingOnStdout ==
    \/ /\ pc \notin {"header", "content", "done"}
       /\ stdout = <<>>
    \/ ~TaxonomyMalformed

\* C5 amended: with a malformed taxonomy line anywhere in the file the run
\* ends in a fatal error and no header column and no data row has been
\* written; standard output holds at most the collected output of a coverage
\* subprocess that exited with a non-zero status.
C5_NoTableOutput ==
    \/ /\ pc \notin {"header", "content", "done"}
       /\ TableText = <<>>
       /\ stdout # <<>> => (pc = "failed" /\ error = "genomeCoverageBed")
       /\ "taxonomy" \in filesread => (pc = "failed" /\ error = "taxonomy")
    \/ ~TaxonomyMalformed

\* the taxonomy assertion fails on a line that is not the first
C5_Witness ==
    /\ pc = "failed"
    /\ error = "taxonomy"
    /\ Len(FileLines(taxonomyfile)) > 1
    /\ Len(Split(FileLines(taxonomyfile)[1], ",")) = 7

(* C6 *)
\* C6: with --samplenames and a number of names other than the number of BAM
\* files the run fails before any processing: no coverage subprocess launched,
\* no input file read but the sample-names file, nothing on standard output.
C6_NamesMismatchFailsFirst ==
    (namesgiven /\ Len(FileLines(namesfile)) # Len(bamfiles)) =>
        /\ pc \in {"main", "failed"}
        /\ pc = "failed" => error = "samplenames"
        /\ launched = 0
        /\ ~running
        /\ filesread \subseteq {"samplenames"}
        /\ stdout = <<>>

C6_Witness ==
    /\ pc = "failed"
    /\ error = "samplenames"
    /\ Len(samplenames) = 1
    /\ Len(bamfiles) = 2

(* C7 *)
\* C7: the coverage subprocesses run one at a time in the order of bamfiles,
\* the next one launched only after the one before exited with status 0 and
\* its output was aggregated; a non-zero status aborts at once: no later
\* subprocess, no read of the FASTA or taxonomy file, no header, no row.
C7_SequentialAndAbort ==
    /\ launched = Len(returncodes) + (IF running THEN 1 ELSE 0)
    /\ launched <= Len(bamfiles)
    /\ \A i \in 1..(Len(returncodes) - 1) : returncodes[i] = 0
    /\ Len(bedcovdicts) = Cardinality({i \in 1..Len(returncodes) : returncodes[i] = 0})
    /\ running => pc = "communicate"
    /\ (\E i \in 1..Len(returncodes) : returncodes[i] # 0) =>
          /\ pc = "failed"
          /\ error = "genomeCoverageBed"
          /\ filesread \cap {"fasta", "taxonomy"} = {}
          /\ TableText = <<>>
    /\ filesread \cap {"fasta", "taxonomy"} # {} =>
          /\ Len(returncodes) = Len(bamfiles)
          /\ \A i \in 1..Len(returncodes) : returncodes[i] = 0

\* the second subprocess fails after the first succeeded
C7_Witness ==
    /\ returncodes = <<0, 1>>
    /\ pc = "failed"

(* C9 *)
\* C9 as stated: the fatal error for a malformed taxonomy line is raised
\* before any coverage subprocess is launched and before the FASTA file is
\* parsed.
C9_TaxonomyErrorFirst ==
    error = "taxonomy" => (launched = 0 /\ "fasta" \notin filesread)

\* C9 amended: a malformed taxonomy line is a fatal error that is detected
\* last: when it is raised every coverage subprocess has been launched and
\* has exited with status 0 and the FASTA file has been parsed; only the
\* table (header and rows) has not been written, and is never written.
C9_TaxonomyErrorLast ==
    /\ error = "taxonomy" =>
          /\ pc = "failed"
          /\ launched = Len(bamfiles)
          /\ Len(returncodes) = Len(bamfiles)
          /\ \A i \in 1..Len(returncodes) : returncodes[i] = 0
          /\ Len(bedcovdicts) = Len(bamfiles)
          /\ "fasta" \in filesread
          /\ TableText = <<>>
    /\ ("taxonomy" \in filesread /\ error # "taxonomy") => ~TaxonomyMalformed

C9_Witness ==
    /\ error = "taxonomy"
    /\ launched = 2
    /\ Len(fastafile) > 0

(* ------------- reference values, computed from the buckets ------------- *)
\* the term of bucket b in the sum named kind
Term(b, kind) ==
    IF kind = "positive" THEN (IF b[2] > 0 THEN b[2] * b[3] ELSE 0)
    ELSE IF kind = "depth" THEN b[2] * b[3]
    ELSE b[3]

RECURSIVE SumOver(_, _, _)
\* the sum of Term(b, kind) over the buckets b of contig c
SumOver(h, c, kind) ==
    IF h = <<>> THEN 0
    ELSE (IF h[1][1] = c THEN Term(h[1], kind) ELSE 0) + SumOver(Tail(h), c, kind)

HasPositive(h, c) == \E i \in 1..Len(h) : h[i][1] = c /\ h[i][2] > 0
HasZero(h, c) == \E i \in 1..Len(h) : h[i][1] = c /\ h[i][2] = 0
ZeroFraction(h, c) == LET i == CHOOSE k \in 1..Len(h) : h[k][1] = c /\ h[k][2] = 0 IN h[i][3]

\* what the claimed sums say of the entry of contig c in mapping r
BedSumsFor(h, r, c) ==
    /\ HasPositive(h, c) =>
          /\ c \in DOMAIN r
          /\ "cov_mean" \in DOMAIN r[c]
          /\ r[c]["cov_mean"] = SumOver(h, c, "positive")
    /\ HasZero(h, c) =>
          /\ c \in DOMAIN r
          /\ "percentage_covered" \in DOMAIN r[c]
          /\ r[c]["percentage_covered"] = 100 * Scale - 100 * ZeroFraction(h, c)
    /\ (HasPositive(h, c) /\ SumOver(h, c, "fraction") = Scale) =>
          /\ c \in DOMAIN r
          /\ "cov_mean" \in DOMAIN r[c]
          \* cov_mean = (sum of depth * f) / (sum of f), over all buckets
          /\ r[c]["cov_mean"] * SumOver(h, c, "fraction") = Scale * SumOver(h, c, "depth")

\* C8: for every histogram, get_bedcov_dict returns for each contig cov_mean
\* equal to the sum of depth times frequency over the contig's positive-depth
\* lines and percentage_covered equal to 100 minus 100 times the frequency of
\* its depth-0 line; when the contig's frequencies sum to 1, cov_mean is the
\* weighted average depth.
C8_BedSums ==
    bedpc = "returned" => \A c \in Contigs : BedSumsFor(hist, bedresult, c)

\* The sums of C8 on the inputs all of whose lines are read: a file, or a
\* text whose last line ends with a newline.
BedSumsWhenAllLinesRead ==
    (bedpc = "returned" /\ (isfile \/ terminated)) =>
        \A c \in Contigs : BedSumsFor(hist, bedresult, c)

\* C10: passing the content as a string returns the same mapping as passing
\* the path of a file holding it, whether or not the last line ends with a
\* newline, and every line of the content contributes to the result.
C10_ModesEquivalent ==
    bedpc = "returned" =>
        /\ bedresult = get_bedcov_dict(HistText(hist, terminated), ~isfile)
        /\ \A i \in 1..Len(hist) : hist[i][1] \in DOMAIN bedresult
====
